---- MODULE Spec2Model ----
(***************************************************************************)
(* The sequential step scheduler of packages/utils/src/promise/sequence.ts *)
(* (class Sequence) as a state machine.                                    *)
(*                                                                         *)
(* One Sequence instance is modelled.  Its fields are the variables        *)
(* running .. promise; `links` holds one entry per callback that next()    *)
(* chained on this.promise (the promise chain), `timers` the tasks the     *)
(* instance has handed to the host (setTimeout / process.nextTick).        *)
(* Every method is an operator from an instance record to an instance      *)
(* record, so that a method calling another one (append -> next, a         *)
(* listener -> stop) is the composition of the operators; an action        *)
(* applies one whole handler.                                              *)
(***************************************************************************)
EXTENDS Integers, Sequences, FiniteSets, TLC

VARIABLES
  running,        \* this.running
  suspended,      \* this.suspended
  suspendTimeout, \* this.suspendTimeout: "null", "pending" (timer armed), "fired"
  muteEndIfEmpty, \* this.muteEndIfEmpty
  index,          \* this.index (the cursor, 0-based)
  steps,          \* this.steps: the identities of the queued step functions
  results,        \* this.results (the history)
  busy,           \* this.busy
  promise,        \* this.promise: 0 = a resolved promise, k = the promise
                  \* returned by the then() that created links[k]
  links,          \* the callbacks chained by next() that have not finished,
                  \* in creation order
  timers,         \* tasks pending in the host's queues
  emitted,        \* the number of emit() calls so far, per event
  invoked,        \* the step functions called so far, in order
  mode,           \* "plain": new Sequence(...); "all" / "chain" / "any"
  outcome,        \* the promise returned by all / chain / any
  opts,           \* the options the constructor was given
  submitted,      \* number of step functions handed to the instance so far
  woken,          \* the step functions appended while the instance was
                  \* running with the cursor at the end of the queue
  calls,          \* number of external control calls made so far
  traced,         \* whether the calls made from outside are recorded in op
  op,             \* the control method called in the last step, "none"
                  \* when the last step was a task of the host
  ret,            \* what that call did for its caller: what next() returned,
                  \* "cancelled" when the clearTimeout of stop() or suspend()
                  \* cancelled a pending resume timer
  suspendedAt,    \* the number of steps invoked so far when suspend() was
                  \* last called
  arg,            \* the n of the go(n) called in the last step, else 0
  listeners,      \* the listeners user code registered, for every event, in
                  \* registration order: "ok" returns, "throws" throws
  called,         \* the number of calls of those listeners so far
  fired           \* the number of calls of the function handed to once()

vars == <<running, suspended, suspendTimeout, muteEndIfEmpty, index, steps,
          results, busy, promise, links, timers, emitted, invoked, mode,
          outcome, opts, submitted, woken, calls, traced, op, ret,
          suspendedAt, arg, listeners, called, fired>>

----------------------------------------------------------------------------
(* Bounds of the model *)

\* step functions handed to one instance over its life
MaxSteps == 2
\* external control calls (go, clear, next, run, stop, suspend)
MaxCalls == 2

\* records in the history: go() lets steps run again without end
MaxHistory == MaxSteps + MaxCalls

----------------------------------------------------------------------------
(* Program constants *)

SUCCEEDED == 1
FAILED == 0

\* What a step function does when it is called: return a plain value, return
\* a promise that fulfils, return a promise that rejects, throw.
Kinds == {"value", "resolve", "reject", "throw"}

\* The option objects the constructor is given.
NoOptions == [emitEndIfEmpty |-> FALSE, muteEndIfEmpty |-> FALSE, autoRun |-> TRUE]
OptionSets == { NoOptions,
                [NoOptions EXCEPT !.muteEndIfEmpty = TRUE],
                [NoOptions EXCEPT !.emitEndIfEmpty = TRUE],
                [NoOptions EXCEPT !.autoRun = FALSE] }

NoTimers == [autoRun |-> FALSE, tick |-> FALSE, end |-> 0, step |-> 0, resume |-> 0]

\* the arguments of a step call; prev is << >> for undefined, else <<record>>
NoArgs == [prev |-> << >>, index |-> 0, history |-> << >>]

NewLink == [st |-> "queued", prev |-> 0, step |-> 0, kind |-> "none", p |-> "none",
            args |-> NoArgs]

NoEvents == [success |-> 0, failed |-> 0, end |-> 0]

Pending == [state |-> "pending", history |-> << >>]

----------------------------------------------------------------------------
(* The instance as a record, and back *)

Cur == [running |-> running, suspended |-> suspended,
        suspendTimeout |-> suspendTimeout, muteEndIfEmpty |-> muteEndIfEmpty,
        index |-> index, steps |-> steps, results |-> results, busy |-> busy,
        promise |-> promise, links |-> links, timers |-> timers,
        emitted |-> emitted, invoked |-> invoked, mode |-> mode,
        outcome |-> outcome, opts |-> opts, submitted |-> submitted,
        woken |-> woken, calls |-> calls, traced |-> traced,
        op |-> "none", ret |-> "none", suspendedAt |-> suspendedAt,
        arg |-> 0, listeners |-> listeners, called |-> called,
        fired |-> fired,
        threw |-> FALSE]

Set(s) ==
  /\ running' = s.running
  /\ suspended' = s.suspended
  /\ suspendTimeout' = s.suspendTimeout
  /\ muteEndIfEmpty' = s.muteEndIfEmpty
  /\ index' = s.index
  /\ steps' = s.steps
  /\ results' = s.results
  /\ busy' = s.busy
  /\ promise' = s.promise
  /\ links' = s.links
  /\ timers' = s.timers
  /\ emitted' = s.emitted
  /\ invoked' = s.invoked
  /\ mode' = s.mode
  /\ outcome' = s.outcome
  /\ opts' = s.opts
  /\ submitted' = s.submitted
  /\ woken' = s.woken
  /\ calls' = s.calls
  /\ traced' = s.traced
  /\ op' = s.op
  /\ ret' = s.ret
  /\ suspendedAt' = s.suspendedAt
  /\ arg' = s.arg
  /\ listeners' = s.listeners
  /\ called' = s.called
  /\ fired' = s.fired

Start(s) ==
  /\ running = s.running
  /\ suspended = s.suspended
  /\ suspendTimeout = s.suspendTimeout
  /\ muteEndIfEmpty = s.muteEndIfEmpty
  /\ index = s.index
  /\ steps = s.steps
  /\ results = s.results
  /\ busy = s.busy
  /\ promise = s.promise
  /\ links = s.links
  /\ timers = s.timers
  /\ emitted = s.emitted
  /\ invoked = s.invoked
  /\ mode = s.mode
  /\ outcome = s.outcome
  /\ opts = s.opts
  /\ submitted = s.submitted
  /\ woken = s.woken
  /\ calls = s.calls
  /\ traced = s.traced
  /\ op = s.op
  /\ ret = s.ret
  /\ suspendedAt = s.suspendedAt
  /\ arg = s.arg
  /\ listeners = s.listeners
  /\ called = s.called
  /\ fired = s.fired

\* The model's caps: no handler is applied whose result exceeds them.
Fits(s) ==
  /\ s.calls <= MaxCalls
  /\ s.timers.end <= MaxCalls + 2
  /\ Len(s.results) <= MaxHistory

----------------------------------------------------------------------------
(* Sequence: helpers *)

\* this.steps[i] is a function (not undefined)
HasStep(s, i) == i >= 0 /\ i < Len(s.steps)

\* this.steps[i]; 0 stands for undefined
StepAt(s, i) == IF HasStep(s, i) THEN s.steps[i + 1] ELSE 0

Min(a, b) == IF a <= b THEN a ELSE b

\* Sequence.createConfig, applied with Object.assign(this, ...)
createConfig(s) ==
  [s EXCEPT !.results = << >>, !.index = 0, !.steps = << >>,
            !.busy = FALSE, !.promise = 0]

\* a bug stop could have: the resume timer is left armed
stop_keepstimer(s) ==
  [s EXCEPT !.running = FALSE,
            !.suspended = FALSE,
            !.ret = IF s.suspendTimeout = "pending" THEN "cancelled" ELSE "none"]

\* Sequence.stop
stop(s) ==
  [s EXCEPT !.running = FALSE,
            !.timers.resume = IF s.suspendTimeout = "pending" THEN @ - 1 ELSE @,
            !.suspendTimeout = "null",
            !.suspended = FALSE,
            !.ret = IF s.suspendTimeout = "pending" THEN "cancelled" ELSE "none"]

\* resolve / reject of the promise all, chain and any return: the first call
\* settles it, with the array this.results names at that moment
settle(s, how) ==
  IF s.outcome.state = "pending"
  THEN [s EXCEPT !.outcome = [state |-> how, history |-> s.results]]
  ELSE s

\* a bug all could have: the failed listener rejects and lets the sequence run
allListeners_nostop(s, ev) ==
  CASE ev = "end" -> settle(s, "resolved")
    [] ev = "failed" -> settle(s, "rejected")
    [] OTHER -> s

\* the listeners Sequence.all registers
allListeners(s, ev) ==
  CASE ev = "end" -> settle(s, "resolved")
    [] ev = "failed" -> settle(stop(s), "rejected")
    [] OTHER -> s

\* a bug chain could have: it fails fast, as all does
chainListeners_failfast(s, ev) ==
  CASE ev = "end" -> settle(s, "resolved")
    [] ev = "failed" -> settle(stop(s), "rejected")
    [] OTHER -> s

\* the listener Sequence.chain registers
chainListeners(s, ev) ==
  IF ev = "end" THEN settle(s, "resolved") ELSE s

\* a bug any could have: the success listener resolves and lets the sequence run
anyListeners_nostop(s, ev) ==
  CASE ev = "success" -> settle(s, "resolved")
    [] ev = "end" -> settle(s, "rejected")
    [] OTHER -> s

\* the listeners Sequence.any registers
anyListeners(s, ev) ==
  CASE ev = "success" -> stop(settle(s, "resolved"))
    [] ev = "end" -> settle(s, "rejected")
    [] OTHER -> s

\* the listeners of an event: "ok" and "throws" are functions registered
\* with on(), "once" and "onceThrows" the wrapper once() registers for a
\* function that returns, or throws
IsOnce(l) == l \in {"once", "onceThrows"}

Throws(l) == l \in {"throws", "onceThrows"}

\* the wrapper of once() takes itself off after the call of a function that
\* returns, and does not get to it when the function throws
StaysOn(l) == l # "once"

\* a bug emit could have: no try / catch around the call of a listener; the
\* forEach ends at the first listener that throws
dispatch_nocatch(ls) ==
  LET thrown == {i \in 1..Len(ls) : Throws(ls[i])}
      n == IF thrown = {} THEN Len(ls)
           ELSE CHOOSE i \in thrown : \A j \in thrown : i <= j
      done == SubSeq(ls, 1, n)
  IN  [called |-> n, threw |-> thrown # {},
       fired |-> Len(SelectSeq(done, IsOnce)),
       kept |-> SelectSeq(done, StaysOn) \o SubSeq(ls, n + 1, Len(ls))]

\* the forEach of EventEmitter.emit over a copy of the listeners: how many
\* are called, whether an exception leaves emit (what a listener throws is
\* caught), how many of them are wrappers of once(), and the listeners
\* registered afterwards
dispatch(ls) ==
  [called |-> Len(ls), threw |-> FALSE,
   fired |-> Len(SelectSeq(ls, IsOnce)),
   kept |-> SelectSeq(ls, StaysOn)]

\* EventEmitter.emit: the listeners of the event are called, synchronously
emit(s, ev) ==
  LET d == dispatch(s.listeners)
      t == [s EXCEPT !.emitted[ev] = @ + 1, !.called = @ + d.called,
                     !.fired = @ + d.fired, !.listeners = d.kept,
                     !.threw = d.threw]
  IN  IF t.threw THEN t
      ELSE CASE s.mode = "all" -> allListeners(t, ev)
             [] s.mode = "chain" -> chainListeners(t, ev)
             [] s.mode = "any" -> anyListeners(t, ev)
             [] OTHER -> t

\* EventEmitter.on with a new function
on(s, kind) == [s EXCEPT !.listeners = Append(@, kind)]

\* EventEmitter.once: on() with a wrapper around the function
once(s, kind) == on(s, IF kind = "throws" THEN "onceThrows" ELSE "once")

\* EventEmitter.off(eventName): every listener of the event is removed
off(s) == [s EXCEPT !.listeners = << >>]

\* Sequence.scheduleEndEvent
scheduleEndEvent(s) == [s EXCEPT !.timers.tick = TRUE]

\* a bug next could have: an outside call is let through while running
next_reentrant(s, inner) ==
  IF s.busy \/ s.suspended THEN [s EXCEPT !.ret = "promise"]
  ELSE IF Len(s.steps) = 0
       THEN IF ~s.muteEndIfEmpty
            THEN [s EXCEPT !.timers.end = @ + 1, !.ret = "resolved"]
            ELSE [s EXCEPT !.ret = "resolved"]
  ELSE IF ~HasStep(s, s.index) THEN [s EXCEPT !.ret = "errno1"]
  ELSE [s EXCEPT !.busy = TRUE,
                 !.links = Append(@, [NewLink EXCEPT !.prev = s.promise]),
                 !.promise = Len(s.links) + 1,
                 !.ret = "chained"]

\* a bug next could have: an exhausted queue is treated as an empty one
next_exhaustedends(s, inner) ==
  IF ~inner /\ s.running THEN [s EXCEPT !.ret = "errno2"]
  ELSE IF s.busy \/ s.suspended THEN [s EXCEPT !.ret = "promise"]
  ELSE IF ~HasStep(s, s.index)
       THEN IF ~s.muteEndIfEmpty
            THEN [s EXCEPT !.timers.end = @ + 1, !.ret = "resolved"]
            ELSE [s EXCEPT !.ret = "resolved"]
  ELSE [s EXCEPT !.busy = TRUE,
                 !.links = Append(@, [NewLink EXCEPT !.prev = s.promise]),
                 !.promise = Len(s.links) + 1,
                 !.ret = "chained"]

\* Sequence.next; `ret` is what it returns: a rejection with errno 2 or 1,
\* this.promise as it is, Promise.resolve(), or the promise just chained
next(s, inner) ==
  IF ~inner /\ s.running THEN [s EXCEPT !.ret = "errno2"]
  ELSE IF s.busy \/ s.suspended THEN [s EXCEPT !.ret = "promise"]
  ELSE IF Len(s.steps) = 0
       THEN IF ~s.muteEndIfEmpty
            THEN [s EXCEPT !.timers.end = @ + 1, !.ret = "resolved"]
            ELSE [s EXCEPT !.ret = "resolved"]
  ELSE IF ~HasStep(s, s.index) THEN [s EXCEPT !.ret = "errno1"]
  ELSE [s EXCEPT !.busy = TRUE,
                 !.links = Append(@, [NewLink EXCEPT !.prev = s.promise]),
                 !.promise = Len(s.links) + 1,
                 !.ret = "chained"]

\* a bug append could have: the new step functions are put in front
append_unshift(s, batch) ==
  LET dead == s.index >= Len(s.steps)
      t == [s EXCEPT !.steps = batch \o @]
  IN  IF t.running /\ dead THEN next(t, TRUE) ELSE t

\* a bug append could have: a running, exhausted sequence is not woken
append_nowake(s, batch) ==
  LET dead == s.index >= Len(s.steps)
  IN  [s EXCEPT !.steps = @ \o batch,
                !.woken = IF s.running /\ dead
                          THEN @ \cup {batch[i] : i \in 1..Len(batch)}
                          ELSE @]

\* Sequence.append, given the identities of the new step functions
append(s, batch) ==
  LET dead == s.index >= Len(s.steps)
      t == [s EXCEPT !.steps = @ \o batch,
                     !.woken = IF s.running /\ dead
                               THEN @ \cup {batch[i] : i \in 1..Len(batch)}
                               ELSE @]
  IN  IF t.running /\ dead THEN next(t, TRUE) ELSE t

\* a bug go could have: the cursor is clamped at 0 as well
go_floored(s, n) ==
  [s EXCEPT !.index = IF n < 0 THEN 0 ELSE Min(n, Len(s.steps))]

\* a bug go could have: no clamp at the length of the queue
go_unclamped(s, n) == [s EXCEPT !.index = n]

\* Sequence.go
go(s, n) == [s EXCEPT !.index = Min(n, Len(s.steps))]

\* Sequence.clear
clear(s) == createConfig(s)

\* a bug run could have: no look at running before it advances
run_again(s) == next([s EXCEPT !.running = TRUE], TRUE)

\* a bug run could have: a stopped sequence starts over from the first step
run_restarts(s) ==
  IF s.running THEN s ELSE next([s EXCEPT !.running = TRUE, !.index = 0], TRUE)

\* Sequence.run
run(s) == IF s.running THEN s ELSE next([s EXCEPT !.running = TRUE], TRUE)

\* a bug suspend could have: the timer of an earlier call is not cleared
suspend_stacks(s) ==
  [s EXCEPT !.suspended = TRUE,
            !.timers.resume = @ + 1,
            !.suspendTimeout = "pending",
            !.ret = IF s.suspendTimeout = "pending" THEN "cancelled" ELSE "none"]

\* Sequence.suspend
suspend(s) ==
  [s EXCEPT !.suspended = TRUE,
            !.timers.resume = IF s.suspendTimeout = "pending" THEN @ ELSE @ + 1,
            !.suspendTimeout = "pending",
            !.ret = IF s.suspendTimeout = "pending" THEN "cancelled" ELSE "none"]

\* the identities of the next k step functions handed to the instance
Fresh(s, k) == [i \in 1..k |-> s.submitted + i]

\* Sequence.constructor
constructor(ids, options, m) ==
  LET s0 == [running |-> FALSE, suspended |-> FALSE, suspendTimeout |-> "null",
             muteEndIfEmpty |-> options.emitEndIfEmpty,
             index |-> 0, steps |-> << >>, results |-> << >>, busy |-> FALSE,
             promise |-> 0, links |-> << >>, timers |-> NoTimers,
             emitted |-> NoEvents, invoked |-> << >>, mode |-> m,
             outcome |-> Pending, opts |-> options,
             submitted |-> Len(ids), woken |-> {}, calls |-> 0,
             traced |-> TRUE, op |-> "none", ret |-> "none",
             suspendedAt |-> 0, arg |-> 0,
             listeners |-> << >>, called |-> 0, fired |-> 0,
             threw |-> FALSE]
      s1 == IF Len(ids) > 0 THEN append(s0, ids)
            ELSE IF ~s0.muteEndIfEmpty THEN scheduleEndEvent(s0)
            ELSE s0
  IN  [s1 EXCEPT !.timers.autoRun = options.autoRun]

----------------------------------------------------------------------------
(* The callback next() chains on this.promise, in its three parts *)

\* a bug the callback could have: a synchronous throw is not caught as a
\* rejection
StepPromise_throwlost(kind) ==
  CASE kind = "value" -> "fulfilled"
    [] kind = "resolve" -> "fulfilled"
    [] kind = "reject" -> "rejected"
    [] kind = "throw" -> "fulfilled"
    [] OTHER -> "fulfilled"

\* the promise a called step function leaves the engine with:
\* a plain value is wrapped by Promise.resolve, a throw by Promise.reject
StepPromise(kind) ==
  CASE kind = "value" -> "fulfilled"
    [] kind = "resolve" -> "fulfilled"
    [] kind = "reject" -> "rejected"
    [] kind = "throw" -> "rejected"
    [] OTHER -> "fulfilled"

\* the callback may run once the promise it was chained on has resolved
Ready(s, k) ==
  /\ k \in 1..Len(s.links)
  /\ s.links[k].st = "queued"
  /\ s.links[k].prev = 0

\* first part: the step at the cursor is read and called; step?.() on an
\* empty slot calls nothing and yields undefined
\* a bug the call of the step could have: the last record is not handed
\* over
arguments_noprev(s) ==
  [prev |-> << >>,
   index |-> s.index,
   history |-> s.results]

\* step?.(this.results[this.results.length - 1], this.index, this.results)
arguments(s) ==
  [prev |-> IF s.results = << >> THEN << >> ELSE <<s.results[Len(s.results)]>>,
   index |-> s.index,
   history |-> s.results]

invoke(s, k, kind) ==
  LET id == StepAt(s, s.index)
      kd == IF id = 0 THEN "undefined" ELSE kind
  IN  [s EXCEPT !.links[k] = [@ EXCEPT !.st = "inflight", !.step = id,
                                       !.kind = kd, !.p = StepPromise(kd),
                                       !.args = IF id = 0 THEN NoArgs
                                                ELSE arguments(s)],
                !.invoked = IF id = 0 THEN @ ELSE Append(@, id)]

\* the callback's own state once the handler has run
Recorded(l) ==
  [l EXCEPT !.st = "recorded", !.kind = "none", !.p = "none", !.args = NoArgs]

\* .then((value) => ...); `step` is the identity of the function that
\* produced the record
onFulfilled(s, k) ==
  LET result == [status |-> SUCCEEDED, index |-> s.index,
                 step |-> s.links[k].step]
  IN  emit([s EXCEPT !.results = Append(@, result),
                     !.links[k] = Recorded(@)], "success")

\* .catch((reason) => ...)
onRejected(s, k) ==
  LET result == [status |-> FAILED, index |-> s.index,
                 step |-> s.links[k].step]
  IN  emit([s EXCEPT !.results = Append(@, result),
                     !.links[k] = Recorded(@)], "failed")

\* the chain after an exception has left the catch handler: the promise
\* next() returned is rejected and the final then-callback never runs
Rejected(s, k) == [s EXCEPT !.links[k].st = "rejected", !.threw = FALSE]

\* second part: the step's promise has settled and its handler runs; an
\* exception leaving the then handler is a rejection the catch handler gets
settled(s, k) ==
  LET a == IF s.links[k].p = "fulfilled" THEN onFulfilled(s, k)
           ELSE onRejected(s, k)
      b == IF s.links[k].p = "fulfilled" /\ a.threw
           THEN onRejected([a EXCEPT !.threw = FALSE], k)
           ELSE a
  IN  IF b.threw THEN Rejected(b, k) ELSE b

\* a promise of the chain resolves: what was chained on it may run, and
\* the finished callback is dropped from `links`
Renumber(p, k) == IF p = k THEN 0 ELSE IF p > k THEN p - 1 ELSE p

Resolved(s, k) ==
  LET n == Len(s.links)
      kept == [i \in 1..(n - 1) |-> IF i < k THEN s.links[i] ELSE s.links[i + 1]]
  IN  [s EXCEPT !.links = [i \in 1..(n - 1) |->
                             [kept[i] EXCEPT !.prev = Renumber(@, k)]],
                !.promise = Renumber(@, k)]

\* a bug advance could have: no timer is armed for the following step
advance_nostep(s, k) ==
  LET t == Resolved([s EXCEPT !.index = @ + 1, !.busy = FALSE], k)
  IN  IF ~HasStep(t, t.index) THEN emit(t, "end") ELSE t

\* a bug advance could have: "end" is emitted for the first exhaustion only
advance_endonce(s, k) ==
  LET t == Resolved([s EXCEPT !.index = @ + 1, !.busy = FALSE], k)
  IN  IF ~HasStep(t, t.index)
      THEN IF t.emitted.end = 0 THEN emit(t, "end") ELSE t
      ELSE [t EXCEPT !.timers.step = @ + 1]

\* third part: .then((result) => ...)
advance(s, k) ==
  LET t == Resolved([s EXCEPT !.index = @ + 1, !.busy = FALSE], k)
  IN  IF ~HasStep(t, t.index) THEN emit(t, "end")
      ELSE [t EXCEPT !.timers.step = @ + 1]

----------------------------------------------------------------------------
(* Tasks the host runs for the instance *)

\* the state a handler leaves, computed once; only a caller from outside
\* sees what next(), stop() or suspend() did
Apply(s) ==
  \E t \in {s} :
    /\ Fits(t)
    /\ Set([t EXCEPT !.ret = IF t.op \in {"next", "stop", "suspend"}
                             THEN @ ELSE "none"])

\* setTimeout(() => this.run(), 0) of the constructor
AutoRun ==
  /\ timers.autoRun
  /\ Apply(run([Cur EXCEPT !.timers.autoRun = FALSE]))

\* the callback scheduleEndEvent hands to process.nextTick
TickEnd ==
  /\ timers.tick
  /\ Apply(emit([Cur EXCEPT !.timers.tick = FALSE], "end"))

\* setTimeout(() => this.emit('end', ...), 0) of next() on an empty queue
EndTimer ==
  /\ timers.end > 0
  /\ Apply(emit([Cur EXCEPT !.timers.end = @ - 1], "end"))

\* a bug the step timer could have: it goes on without looking at running
StepTimer_always ==
  /\ timers.step > 0
  /\ Apply(next([Cur EXCEPT !.timers.step = @ - 1], TRUE))

\* setTimeout(() => { this.running && this.next(true) }, this.interval)
StepTimer ==
  /\ timers.step > 0
  /\ LET s == [Cur EXCEPT !.timers.step = @ - 1]
     IN  Apply(IF s.running THEN next(s, TRUE) ELSE s)

\* the callback of suspend()'s timer
ResumeTimer ==
  /\ timers.resume > 0
  /\ LET s == [Cur EXCEPT !.timers.resume = @ - 1, !.suspendTimeout = "fired",
                          !.suspended = FALSE]
     IN  Apply(IF s.running THEN next(s, TRUE) ELSE s)

Invoke ==
  \E k \in 1..Len(links) : \E kind \in Kinds :
    /\ Ready(Cur, k)
    /\ Apply(invoke(Cur, k, kind))

Settle ==
  \E k \in 1..Len(links) :
    /\ links[k].st = "inflight"
    /\ Apply(settled(Cur, k))

Advance ==
  \E k \in 1..Len(links) :
    /\ links[k].st = "recorded"
    /\ Apply(advance(Cur, k))

Engine == AutoRun \/ TickEnd \/ EndTimer \/ StepTimer \/ Invoke \/ Settle \/ Advance

----------------------------------------------------------------------------
(* Calls from outside: user code between two tasks, in a listener, in a step *)

Called(s, name) ==
  [s EXCEPT !.calls = @ + 1, !.op = IF s.traced THEN name ELSE "none"]

CallAppend ==
  \E n \in 1..(MaxSteps - submitted) :
    Apply(append([Cur EXCEPT !.submitted = @ + n], Fresh(Cur, n)))

GoTargets == -1..MaxSteps

CallGo ==
  \E n \in GoTargets :
    Apply(go([Called(Cur, "go") EXCEPT !.arg = IF traced THEN n ELSE 0], n))

CallClear == Apply(clear(Called(Cur, "clear")))

CallNext == Apply(next(Called(Cur, "next"), FALSE))

CallRun == Apply(run(Called(Cur, "run")))

CallStop == Apply(stop(Called(Cur, "stop")))

CallSuspend ==
  Apply([suspend(Called(Cur, "suspend"))
           EXCEPT !.suspendedAt = IF traced THEN Len(invoked) ELSE @])

----------------------------------------------------------------------------
(* new Sequence(steps, options), then any calls *)

Init ==
  \E n \in 0..MaxSteps : \E o \in {NoOptions, [NoOptions EXCEPT !.autoRun = FALSE]} :
    Start(constructor([i \in 1..n |-> i], o, "plain"))

Next ==
  \/ Engine
  \/ ResumeTimer
  \/ CallAppend
  \/ CallGo
  \/ CallClear
  \/ CallNext
  \/ CallRun
  \/ CallStop
  \/ CallSuspend

Spec == Init /\ [][Next]_vars

----------------------------------------------------------------------------
(* new Sequence(steps, options) left to itself: no call from outside *)

InitAuto ==
  \E n \in 0..MaxSteps : \E o \in OptionSets :
    Start(constructor([i \in 1..n |-> i], o, "plain"))

SpecAuto == InitAuto /\ [][Engine]_vars

----------------------------------------------------------------------------
(* new Sequence(steps, options), then any calls but go and clear *)

NextNoRewind ==
  \/ Engine
  \/ ResumeTimer
  \/ CallAppend
  \/ CallNext
  \/ CallRun
  \/ CallStop
  \/ CallSuspend

SpecNoRewind == Init /\ [][NextNoRewind]_vars

\* The host does not stop while it holds a task (a timer, a nextTick
\* callback, a promise reaction), and every called step settles.
Host == Engine \/ ResumeTimer

Fairness == WF_vars(Host)

\* new Sequence(steps), then append, suspend and stop
InitDefault ==
  \E n \in 0..MaxSteps :
    Start([constructor([i \in 1..n |-> i], NoOptions, "plain")
             EXCEPT !.traced = FALSE])

NextWake == Host \/ CallAppend \/ CallSuspend \/ CallStop

SpecWake == InitDefault /\ [][NextWake]_vars /\ Fairness

\* new Sequence(steps), then append, stop and run
NextRerun == Engine \/ CallAppend \/ CallStop \/ CallRun

SpecRerun == InitDefault /\ [][NextRerun]_vars /\ WF_vars(Engine)

\* new Sequence(steps, options), then append, clear and run
NextClear == Engine \/ CallAppend \/ CallClear \/ CallRun

SpecClear == Init /\ [][NextClear]_vars

\* new Sequence(steps, options), then go
NextGo == Engine \/ CallGo

SpecGo == Init /\ [][NextGo]_vars

\* new Sequence(steps), left to run, with steps appended at any time
NextGrow == Engine \/ CallAppend

SpecGrow == InitDefault /\ [][NextGrow]_vars /\ WF_vars(Engine)

\* listeners user code registers on one instance
MaxListeners == 2

ListenerLists ==
  UNION {[1..n -> {"ok", "throws"}] : n \in 1..MaxListeners}

\* new Sequence(steps) with listeners registered for every event, left to
\* run
InitListen ==
  \E n \in 0..MaxSteps : \E ls \in ListenerLists :
    Start([constructor([i \in 1..n |-> i], NoOptions, "plain")
             EXCEPT !.traced = FALSE, !.listeners = ls])

SpecListen == InitListen /\ [][Engine]_vars /\ WF_vars(Engine)

\* a listener of "success" / "failed" that asks for the step to be run
\* again: sequence.go(index - 1), index being the cursor the event carries
retryListener(s) == go(Called(s, "go"), s.index - 1)

\* the handler of a settled step, with that listener registered and
\* rewinding
SettleRetry ==
  \E k \in 1..Len(links) :
    /\ links[k].st = "inflight"
    /\ Apply(retryListener(settled(Cur, k)))

\* new Sequence(steps) with a listener that rewinds some of the times
NextRetry == Engine \/ SettleRetry

SpecRetry == InitDefault /\ [][NextRetry]_vars /\ WF_vars(Engine)

\* new Sequence(steps, options), then append and stop: the caller calls
\* neither run nor next
NextStop == Engine \/ CallAppend \/ CallStop

SpecStop == Init /\ [][NextStop]_vars

\* stop() called while the sequence is suspended
CallStopSuspended == suspended /\ CallStop

\* new Sequence(steps), then append, suspend, and stop while suspended:
\* neither run nor next is called from outside
NextHalt == Host \/ CallAppend \/ CallSuspend \/ CallStopSuspended

SpecHalt == InitDefault /\ [][NextHalt]_vars

----------------------------------------------------------------------------
(* new Sequence(steps, {autoRun: false}) stepped by hand: run is not called *)

InitManual ==
  \E n \in 0..MaxSteps :
    Start(constructor([i \in 1..n |-> i], [NoOptions EXCEPT !.autoRun = FALSE],
                      "plain"))

NextManual ==
  \/ TickEnd
  \/ EndTimer
  \/ StepTimer
  \/ ResumeTimer
  \/ Invoke
  \/ Settle
  \/ Advance
  \/ CallAppend
  \/ CallNext
  \/ CallStop
  \/ CallSuspend

SpecManual == InitManual /\ [][NextManual]_vars

\* the same instance with run, next, append and clear called from outside
NextManualClear ==
  \/ TickEnd
  \/ EndTimer
  \/ StepTimer
  \/ Invoke
  \/ Settle
  \/ Advance
  \/ CallAppend
  \/ CallNext
  \/ CallRun
  \/ CallClear

SpecManualClear == InitManual /\ [][NextManualClear]_vars

----------------------------------------------------------------------------
(* The instance used as an EventEmitter, for one event name *)

\* emit calls made by user code
MaxEmits == 3

\* user code registers a listener with on()
CallOn ==
  \E kind \in {"ok", "throws"} :
    /\ Len(listeners) < MaxListeners
    /\ Apply(on(Cur, kind))

\* user code hands one function to once(), one time
CallOnce ==
  \E kind \in {"ok", "throws"} :
    /\ Len(listeners) < MaxListeners
    /\ fired = 0
    /\ \A i \in 1..Len(listeners) : ~IsOnce(listeners[i])
    /\ Apply(once(Cur, kind))

\* user code emits the event
CallEmit ==
  /\ emitted.end < MaxEmits
  /\ Apply(emit(Cur, "end"))

\* user code removes the listeners of the event
CallOff ==
  /\ listeners # << >>
  /\ Apply(off(Cur))

\* new Sequence([step], {autoRun: false}), never started
InitEmitter ==
  Start(constructor(<<1>>, [NoOptions EXCEPT !.autoRun = FALSE], "plain"))

NextEmitter == CallOn \/ CallOnce \/ CallEmit \/ CallOff

SpecEmitter == InitEmitter /\ [][NextEmitter]_vars

----------------------------------------------------------------------------
(* Sequence.all / Sequence.chain / Sequence.any on a non-empty list, no cb *)

\* length of the list handed to all, chain or any
MaxList == 3

\* no Sequence is constructed: no field is set, no task is handed to the host
NoSequence(m) == [constructor(<< >>, NoOptions, m) EXCEPT !.timers = NoTimers]

\* a bug all, chain and any could have: no early return for an empty list
aggregate_noguard(m, n) ==
  constructor([i \in 1..n |-> i], [NoOptions EXCEPT !.muteEndIfEmpty = TRUE], m)

\* Sequence.all, Sequence.chain, Sequence.any: the promise each returns for
\* an empty list, the sequence each builds for any other
aggregate(m, n) ==
  IF n = 0
  THEN settle(NoSequence(m), IF m = "any" THEN "rejected" ELSE "resolved")
  ELSE constructor([i \in 1..n |-> i],
                   [NoOptions EXCEPT !.muteEndIfEmpty = TRUE], m)

InitAgg ==
  \E m \in {"all", "chain", "any"} : \E n \in 1..MaxList :
    Start(aggregate(m, n))

NextAgg == AutoRun \/ StepTimer \/ Invoke \/ Settle \/ Advance

SpecAgg == InitAgg /\ [][NextAgg]_vars

\* the same on any list, the empty one included
InitAnyList ==
  \E m \in {"all", "chain", "any"} : \E n \in 0..MaxList :
    Start(aggregate(m, n))

SpecAnyList == InitAnyList /\ [][NextAgg]_vars

----------------------------------------------------------------------------
(* Claims *)

\* a step function has been called and the promise it returned is pending
InFlight(l) == l.st = "inflight" /\ l.kind \in {"resolve", "reject"}

NumInFlight == Cardinality({k \in 1..Len(links) : InFlight(links[k])})

\* C1: under any interleaving of append, go, suspend, stop, run, clear and
\* next with the engine's timers and continuations, at most one step has
\* been invoked and not yet settled.
C1_AtMostOneInFlight == NumInFlight <= 1

\* C1, reached: a step is in flight
C1_Witness == NumInFlight = 1

\* C2: when go and clear are never called, steps are invoked in exactly
\* their submission order (step functions are numbered as they are handed
\* over), and a step is invoked only when the history holds the record of
\* every step invoked before it.
C2_SubmissionOrder ==
  /\ \A i \in 1..Len(invoked) : invoked[i] = i
  /\ \A i \in 1..(Len(invoked) - 1) :
        i <= Len(results) /\ results[i].step = invoked[i]

\* C2, reached: an appended step has been invoked after the initial one
C2_Witness ==
  /\ opts = NoOptions
  /\ Len(invoked) >= 2
  /\ invoked[Len(invoked)] \in woken


\* nothing is left to run: no callback of the chain, no task of the host
Quiescent == links = << >> /\ timers = NoTimers

\* record i of h is the record of step i, made with the cursor at i - 1
InOrder(h) == \A i \in 1..Len(h) : h[i].step = i /\ h[i].index = i - 1

Succeeded(h) == {i \in 1..Len(h) : h[i].status = SUCCEEDED}

Failed(h) == {i \in 1..Len(h) : h[i].status = FAILED}

\* the status of the record a settling step must get
StatusOf(kind) == IF kind \in {"value", "resolve"} THEN SUCCEEDED ELSE FAILED

C4_ChainState ==
  mode = "chain" =>
    /\ outcome.state # "rejected"
    /\ outcome.state = "resolved" =>
         /\ Len(outcome.history) = Len(steps)
         /\ InOrder(outcome.history)
         /\ results = outcome.history
         /\ links = << >>
    /\ Quiescent => outcome.state = "resolved"

C4_ChainStep ==
  mode = "chain" =>
    \A k \in 1..Len(links) :
      (links[k].st = "inflight" /\ links'[k].st = "recorded") =>
        results' = Append(results, [status |-> StatusOf(links[k].kind),
                                    index |-> index, step |-> links[k].step])

C4_Chain == [](C4_ChainState) /\ [][C4_ChainStep]_vars

\* C4, reached: chain([s1, s2, s3]) has resolved with s2 failed
C4_Witness ==
  /\ mode = "chain" /\ Len(steps) = 3 /\ outcome.state = "resolved"
  /\ Failed(outcome.history) = {2}

\* C5: Sequence.any(steps) on a non-empty list resolves if and only if some
\* step succeeds: at the first successful step k, with a history ending in
\* its Succeeded record, the sequence stopped and no step after k invoked;
\* it rejects, with the full history, only when "end" fires with no success.
C5_Any ==
  mode = "any" =>
    /\ \A i \in 1..Len(invoked) : invoked[i] = i
    /\ outcome.state = "resolved" <=> Succeeded(results) # {}
    /\ outcome.state = "resolved" =>
         /\ Succeeded(outcome.history) = {Len(outcome.history)}
         /\ InOrder(outcome.history)
         /\ results = outcome.history
         /\ ~running
         /\ Len(invoked) = Len(outcome.history)
    /\ outcome.state = "rejected" =>
         /\ emitted.end >= 1
         /\ Len(outcome.history) = Len(steps)
         /\ InOrder(outcome.history)
         /\ results = outcome.history
    /\ Quiescent => outcome.state # "pending"

\* C5, reached: any([s1, s2, s3]) has resolved at s2 and has come to rest
C5_Witness ==
  /\ mode = "any" /\ Len(steps) = 3 /\ Quiescent
  /\ outcome.state = "resolved" /\ Len(outcome.history) = 2


WasInvoked(i) == \E j \in 1..Len(invoked) : invoked[j] = i

\* C6: the steps appended to a sequence that is running and has exhausted
\* its queue are eventually invoked, with no call of run() or next(), as
\* long as the sequence is running (stop() ends the case).
C6_AppendWakes ==
  (\E i \in woken : ~WasInvoked(i))
     ~> ((\A i \in woken : WasInvoked(i)) \/ ~running)

\* C6, reached: a step appended to the running, exhausted sequence has run
C6_Witness == running /\ \E i \in woken : WasInvoked(i)

\* a callback of the chain finishes in this step
Advancing == \E k \in 1..Len(links) :
  links[k].st = "recorded" /\ Len(links') = Len(links) - 1

\* C7: every time the cursor catches up to the tail of the queue one "end"
\* is emitted, also after steps were appended to an exhausted sequence; the
\* only other "end" events are those scheduled for an empty queue; the
\* cursor of a running sequence with a step at the cursor catches up to
\* the tail again (unless stop() is called).
C7_EndStep ==
  /\ Advancing =>
       emitted'.end = emitted.end + (IF index' >= Len(steps') THEN 1 ELSE 0)
  /\ (~Advancing /\ emitted'.end # emitted.end) =>
       /\ emitted'.end = emitted.end + 1
       /\ timers'.end < timers.end \/ (timers.tick /\ ~timers'.tick)

C7_EndEveryExhaustion ==
  /\ [][C7_EndStep]_vars
  /\ (running /\ HasStep(Cur, index)) ~> (index >= Len(steps) \/ ~running)

\* C7, reached: steps appended after an "end" are exhausted: a second "end"
\* follows the record of an appended step
C7_Witness ==
  /\ emitted.end >= 2 /\ index = Len(steps) /\ Quiescent
  /\ \E i \in 1..Len(results) : results[i].step \in woken

\* C8: a sequence constructed with no steps and default options, to which
\* nothing is appended, emits exactly one "end": never more than one.
C8_OneEndWhenEmpty ==
  (opts = NoOptions /\ submitted = 0) => emitted.end <= 1

\* C9: a sequence constructed with no steps and muteEndIfEmpty: true emits
\* no "end" while its queue stays empty.
C9_MutedNoEnd ==
  (opts.muteEndIfEmpty /\ Len(steps) = 0) => emitted.end = 0

\* the step in flight in callback k failed, by a throw or by a rejection
Failing(k) ==
  /\ links[k].st = "inflight"
  /\ links[k].kind \in {"throw", "reject"}

\* the handler of callback k runs in this step
Settling(k) == Len(links') = Len(links) /\ links'[k].st = "recorded"

\* the last record of the history is a Failed one
LastFailed == results # << >> /\ results[Len(results)].status = FAILED

\* step i has a Failed record and a step after it
FailedBefore(i) ==
  /\ i < Len(steps)
  /\ \E j \in 1..Len(results) :
       results[j].step = i /\ results[j].status = FAILED

C10_FailStep ==
  /\ \A k \in 1..Len(links) :
       (Failing(k) /\ Settling(k)) =>
         /\ results' = Append(results, [status |-> FAILED, index |-> index,
                                         step |-> links[k].step])
         /\ emitted' = [emitted EXCEPT !.failed = @ + 1]
         /\ index' = index
  /\ (Advancing /\ LastFailed) =>
       /\ index' = index + 1
       /\ results' = results
       /\ promise' = 0
       /\ HasStep(Cur, index + 1) => timers'.step = timers.step + 1

\* C10: a step that throws and a step that returns a rejected promise have
\* the same outcome: one Failed record is appended and one "failed" emitted
\* when the failure is handled, then the cursor advances by one and the
\* chain resolves; while the sequence is running the following step is
\* invoked.
C10_FailureAbsorbed ==
  /\ [][C10_FailStep]_vars
  /\ (\E i \in 1..MaxSteps : FailedBefore(i) /\ ~WasInvoked(i + 1))
       ~> (~running \/ \A i \in 1..MaxSteps : FailedBefore(i) => WasInvoked(i + 1))

\* C10, reached: the first step failed, its record is in the history, and
\* the second step was invoked by the running sequence
C10_Witness ==
  /\ running /\ emitted.failed >= 1
  /\ FailedBefore(1) /\ WasInvoked(2)

\* the fields of the instance, the chain, the host's tasks and what was
\* emitted and invoked so far
engine == <<running, suspended, suspendTimeout, index, steps, results, busy,
            promise, links, timers, emitted, invoked>>

C11_Step ==
  (op' = "next" /\ running) => (ret' = "errno2" /\ UNCHANGED engine)

\* C11: next() called from outside while the sequence is running returns a
\* rejection with errno 2 and changes nothing: cursor, queue, history, busy,
\* running, suspended and the chain are as before, and no step is started.
C11_NextWhileRunning == [][C11_Step]_vars

\* C11, reached: next() was rejected with errno 2 while a step is in flight
C11_Witness ==
  /\ op = "next" /\ ret = "errno2" /\ running
  /\ \E k \in 1..Len(links) : links[k].st = "inflight"

C12_Step ==
  (/\ op' = "next"
   /\ ~running /\ ~busy /\ ~suspended
   /\ Len(steps) > 0 /\ index >= Len(steps))
    => (ret' = "errno1" /\ UNCHANGED engine)

NumLinks(sts) == Cardinality({k \in 1..Len(links) : links[k].st \in sts})

\* one callback at most, one invocation per callback that has run its first
\* part, one record per callback that has run its handler, the cursor moved
\* once per finished callback
C13_State ==
  /\ Len(links) <= 1
  /\ Len(invoked) = index + NumLinks({"inflight", "recorded"})
  /\ Len(results) = index + NumLinks({"recorded"})

C13_Step ==
  /\ (/\ op' = "next"
      /\ ~running /\ ~busy /\ ~suspended /\ HasStep(Cur, index))
       => /\ ret' = "chained"
          /\ links' = Append(links, NewLink)
          /\ busy'
          /\ UNCHANGED <<index, steps, results, running, suspended, invoked,
                         timers, emitted>>
  /\ Len(links') > Len(links) => op' = "next"

\* C13: next() called from outside on a sequence that is not running, not
\* busy, not suspended and has a step at the cursor advances one step: one
\* callback is chained, it invokes one step, appends one record and moves the
\* cursor by one, and nothing but another next() starts a further step
\* (run() is not called).
C13_NextOneStep == [](C13_State) /\ [][C13_Step]_vars

\* C13, reached: one next() has run the first of two steps and every task
\* it left behind is done
C13_Witness ==
  /\ ~running /\ Quiescent /\ Len(steps) >= 2
  /\ index = 1 /\ Len(invoked) = 1 /\ Len(results) = 1

C14_Step == (op' = "run" /\ running) => UNCHANGED engine

\* C14: run() on a sequence that is already running changes no state and
\* starts no step: no field, callback, timer, event or invocation differs,
\* so run(); run() invokes what a single run() invokes.
C14_RunIdempotent == [][C14_Step]_vars

\* C14, reached: the constructor's timer has called run(), and the one call
\* made from outside since is run()
C14_Witness ==
  /\ op = "run" /\ calls = 1 /\ running
  /\ opts.autoRun /\ ~timers.autoRun

\* a step function is called in this step
Invoking == Len(invoked') > Len(invoked)

\* C15: while suspended is true no step invocation begins, also when
\* suspend() is called between the call that chained the callback and the
\* callback's run.
C15_NoInvokeWhileSuspended == [][Invoking => ~suspended]_vars

\* a "success" or "failed" event is emitted in this step
EmittingStepEvent ==
  emitted'.success + emitted'.failed > emitted.success + emitted.failed

\* C16: after suspend(d) no "success" or "failed" event is emitted before
\* the resume timer armed by that call has fired.  Checked in the weaker
\* form that excuses the event of a step that had already been invoked when
\* suspend was called: before the timer fires no event is emitted for a
\* step invoked after the call.
C16_NoStepEventWhileSuspended ==
  [][(suspended /\ suspendTimeout = "pending" /\ EmittingStepEvent)
       => Len(invoked) = suspendedAt]_vars

\* the constructor's run() has happened and stop() has been called since;
\* where run and next are never called from outside, nothing has set
\* running again
Stopped == ~running /\ ~timers.autoRun

\* C17: after stop() is called while the sequence is suspended, no step is
\* invoked until run() or next() is called again (neither is, here).
\* Checked for the steps whose callback was chained by an append() from
\* outside, which suspend() and stop() can follow in the same block.
C17_NoInvokeAfterStop ==
  [][Stopped => ~(Invoking /\ StepAt(Cur, index) \in woken)]_vars

\* C18: the result of a step that settles after stop() is discarded: no
\* record is appended to the history and no "success" or "failed" is
\* emitted for it.
C18_StoppedDiscards ==
  [][Stopped => (results' = results /\ ~EmittingStepEvent)]_vars

C19_Step ==
  op' = "stop" =>
    /\ ~running' /\ ~suspended'
    /\ suspendTimeout' = "null" /\ timers'.resume = 0
    /\ UNCHANGED <<index, steps, results>>

\* C19: stop(), in any state, sets running and suspended to false and
\* leaves no pending resume timer; cursor, queue and history stay as they
\* were.
C19_StopFrame == [][C19_Step]_vars

\* C19, reached: stop() has cancelled a pending resume timer of a sequence
\* whose cursor is inside the queue and whose history is not empty
C19_Witness ==
  /\ op = "stop" /\ ret = "cancelled"
  /\ index > 0 /\ index < Len(steps) /\ results # << >>

\* one resume timer at most, the one this.suspendTimeout names, and it is
\* pending whenever the sequence is suspended
C20_State ==
  /\ timers.resume <= 1
  /\ timers.resume = 1 <=> suspendTimeout = "pending"
  /\ suspended => timers.resume = 1

C20_Step ==
  /\ op' = "suspend" =>
       /\ suspended' /\ timers'.resume = 1 /\ suspendTimeout' = "pending"
       /\ UNCHANGED <<running, index, steps, results, busy, links, invoked,
                      emitted>>
  /\ (suspended /\ ~suspended' /\ op' # "stop") =>
       /\ timers.resume = 1 /\ timers'.resume = 0
       /\ suspendTimeout' = "fired"

\* C20: suspend() called before an earlier resume timer has fired cancels
\* that timer: one resume timer at most is pending at any time, and the
\* sequence leaves the suspended state (other than by stop()) only when
\* that one timer, armed by the last suspend(), fires.
C20_LastSuspendWins == [](C20_State) /\ [][C20_Step]_vars

\* C20, reached: a second suspend() has cancelled the pending timer of an
\* earlier one
C20_Witness ==
  /\ op = "suspend" /\ ret = "cancelled"
  /\ suspended /\ timers.resume = 1

\* steps were handed over and the queue is empty: clear() has been called
\* and nothing was appended since
Cleared == submitted > 0 /\ Len(steps) = 0

\* C21: after clear() the queue and the history are empty and the cursor is
\* 0, and they stay so until something is appended: no record of a step
\* from before the clear turns up in the history.
C21_ClearedStaysEmpty == Cleared => (results = << >> /\ index = 0)

C22_Step ==
  op' = "go" => (index' = Min(arg', Len(steps)) /\ index' <= Len(steps'))

\* C22 (amended): immediately after go(n) the cursor equals
\* min(n, steps.length), so it never exceeds the length of the queue; there
\* is no lower clamp: a negative n gives a negative cursor.
C22_GoClampsAbove == [][C22_Step]_vars

\* C22, reached: go(n) with a negative n has made the cursor of a non-empty
\* queue negative
C22_Witness ==
  /\ op = "go" /\ arg < 0
  /\ Len(steps) > 0 /\ index = arg

\* C22 (as stated): after go(n) the cursor is min(n, steps.length) and lies
\* in [0, steps.length], for every integer n.
C22_GoInRange ==
  [][op' = "go" => (index' = Min(arg', Len(steps)) /\ index' \in 0..Len(steps'))]_vars

\* the invocation log moves from a step to the same step or to the next one
RetryOrNext ==
  \A j \in 2..Len(invoked) : invoked[j] \in {invoked[j - 1], invoked[j - 1] + 1}

\* the sequence has run to the end of its queue and nothing is left to do
AtEnd == Quiescent /\ index = Len(steps) /\ emitted.end >= 1

C23_State ==
  /\ RetryOrNext
  /\ Len(invoked) <= Len(steps) + calls
  /\ AtEnd => Len(invoked) = Len(steps) + calls

\* C23: when the listener of a per-step event of a running sequence calls
\* go(index - 1), the step that just settled is invoked again as the next
\* step, once per such call; when the listener no longer rewinds, the
\* sequence reaches the end of the queue and emits "end".
C23_RetryFromPoint == [](C23_State) /\ <>AtEnd

\* C23, reached: the first step ran twice, the listener having rewound
\* once, and the sequence has ended
C23_Witness ==
  /\ AtEnd /\ calls = 1 /\ Len(invoked) >= 2
  /\ invoked[1] = 1 /\ invoked[2] = 1

\* no callback of the chain is pending: no step is committed, in flight or
\* being recorded
NoStepInFlight == links = << >>

\* C24 (as stated): whenever no step is in flight, the length of the history
\* equals the cursor.
C24_HistoryIsCursor == NoStepInFlight => Len(results) = index

\* C25: the index field of the Nth record of the history is N - 1 (go() is
\* not called).
C25_RecordIndex == \A n \in 1..Len(results) : results[n].index = n - 1

\* every step of the queue has been invoked, once and in order, has its
\* record, and "end" was emitted
AllDone ==
  /\ invoked = steps
  /\ Len(results) = Len(steps) /\ index = Len(steps)
  /\ \A i \in 1..Len(results) : results[i].step = steps[i]
  /\ emitted.end >= 1

C26_State == invoked = SubSeq(steps, 1, Len(invoked))

C26_Step ==
  (Advancing /\ emitted'.end > emitted.end) =>
    (invoked' = steps' /\ Len(results') = Len(steps'))

\* C26: a started sequence whose steps all settle and which receives no
\* stop, suspend, go or clear invokes every step once, in order, and emits
\* "end" with one record per step in the history; steps appended later are
\* run the same way, to another "end".
C26_RunsToEnd == [](C26_State) /\ [][C26_Step]_vars /\ []<>AllDone

\* C26, reached: the sequence ended, was given another step, and ended
\* again with every step invoked once
C26_Witness ==
  /\ AllDone /\ Quiescent
  /\ woken # {} /\ emitted.end >= 2 /\ Len(steps) >= 2

\* every emit so far has called every listener
AllListenersCalled ==
  called = (emitted.success + emitted.failed + emitted.end) * Len(listeners)

C27_Step ==
  /\ EmittingStepEvent =>
       /\ Len(results') = Len(results) + 1
       /\ \E k \in 1..Len(links) : links[k].st = "inflight" /\ Settling(k)
  /\ Advancing =>
       /\ index' = index + 1 /\ ~busy'
       /\ HasStep(Cur, index + 1) => timers'.step = timers.step + 1

\* C27: a listener that throws while handling "success", "failed" or "end"
\* does not abort the engine: every listener of the event is still called,
\* each settled step leaves one record, the final callback advances the
\* cursor, clears busy and arms the timer of the next step, and the
\* sequence runs to its end.
C27_ListenerThrows ==
  [](AllListenersCalled) /\ [][C27_Step]_vars /\ <>AllDone

\* C27, reached: with a throwing listener registered before another one, a
\* sequence of two steps has run to its end
C27_Witness ==
  /\ AllDone /\ Len(steps) >= 2
  /\ Len(listeners) >= 2 /\ listeners[1] = "throws"

\* what step i (the ith of the queue) is called with when neither go nor
\* clear is used: the record of step i - 1, the index i - 1 (zero-based),
\* and the history of the i - 1 steps before it
ArgsOfStep(i) ==
  [prev |-> IF i = 1 THEN << >> ELSE <<results[i - 1]>>,
   index |-> i - 1,
   history |-> SubSeq(results, 1, i - 1)]

C29_EmptyList ==
  (mode # "plain" /\ submitted = 0) =>
    /\ outcome = [state |-> IF mode = "any" THEN "rejected" ELSE "resolved",
                  history |-> << >>]
    /\ emitted = NoEvents /\ invoked = << >> /\ called = 0
    /\ timers = NoTimers /\ links = << >>

\* C29, reached: any on an empty list has rejected
C29_Witness ==
  /\ mode = "any" /\ submitted = 0
  /\ outcome.state = "rejected" /\ outcome.history = << >>

\* C30 (as stated, the half that every caller relies on): in every reachable
\* state, a step that has been invoked and has not yet settled means busy is
\* true, so that next() returns the continuation underway instead of
\* invoking another step.
C30_OutstandingIsBusy == NumInFlight >= 1 => busy

\* C31 (as stated): across every transition other than a go call, the cursor
\* does not decrease.
C31_OnlyGoRewinds == [][op' # "go" => index' >= index]_vars

\* C31, amended: across every transition other than a go call or a clear
\* call, the cursor does not decrease; clear() puts it back to 0.
C31_OnlyGoAndClearRewind ==
  [][/\ op' \notin {"go", "clear"} => index' >= index
     /\ op' = "clear" => index' = 0]_vars

\* C31, reached: the engine has moved the cursor on after calls from outside
C31_Witness == index >= 1 /\ calls >= 1 /\ op = "none" /\ links = << >>

\* C32: right after clear() no resume timer is pending and the sequence is
\* not suspended, as after stop().
C32_ClearCancelsResume ==
  op = "clear" => (~suspended /\ suspendTimeout # "pending" /\ timers.resume = 0)

\* an "end" event is emitted in this step
EmittingEnd == emitted'.end > emitted.end

\* C33: at every emission of an "end" event the cursor equals the length of
\* the step queue, whatever calls from outside came before.
C33_EndAtQueueEnd == [][EmittingEnd => index' = Len(steps')]_vars

\* the step at the cursor waits for the engine alone: the sequence is running
\* and not suspended, no callback of next() is chained, a step is at the cursor
Idle ==
  /\ running /\ ~suspended
  /\ links = << >>
  /\ HasStep(Cur, index)

\* C34: whenever the sequence is running, not suspended, has no step in flight
\* and has a step at the cursor, an advancement is pending (the timer of the
\* interval): the step is invoked without a further call from outside, also
\* after go() rewinds an idle running sequence.
C34_NoStuckState == Idle => timers.step > 0

\* C35: in every reachable state 0 <= cursor <= steps.length, also when clear
\* is called while a step is in flight and that step later settles.
C35_CursorInRange == index >= 0 /\ index <= Len(steps)

\* stop() has been called and has returned (where stop is the one control
\* method called from outside)
StopReturned == calls >= 1

\* C36: after stop() returns no step is invoked until the caller calls run()
\* or next() again (it never does, here): not by the constructor's automatic
\* start, not by the timer of the interval, not by a callback already chained.
\* Checked for the invocations made while running is true again: with no
\* run() from outside, the stop() came before the constructor's timer ran.
C36_StopIsFinal == [][(StopReturned /\ running) => ~Invoking]_vars

\* the records of step function id in the history
RecordsOf(id) == {i \in 1..Len(results) : results[i].step = id}

\* every step called so far is in flight with no record yet, or has settled
\* and left one record; each kind of record has had its one event
C37_State ==
  /\ \A j \in 1..Len(invoked) :
       Cardinality(RecordsOf(invoked[j])) =
         IF \E k \in 1..Len(links) :
              links[k].st = "inflight" /\ links[k].step = invoked[j]
         THEN 0 ELSE 1
  /\ Cardinality(Succeeded(results)) = emitted.success
  /\ Cardinality(Failed(results)) = emitted.failed

\* the handler of a settled step appends one record and emits one event,
\* "success" for a fulfilled promise and "failed" for a rejected one
C37_Step ==
  \A k \in 1..Len(links) :
    (links[k].st = "inflight" /\ Settling(k)) =>
      /\ results' = Append(results,
            [status |-> IF links[k].p = "fulfilled" THEN SUCCEEDED ELSE FAILED,
             index |-> index, step |-> links[k].step])
      /\ emitted'.success =
            emitted.success + (IF links[k].p = "fulfilled" THEN 1 ELSE 0)
      /\ emitted'.failed =
            emitted.failed + (IF links[k].p = "fulfilled" THEN 0 ELSE 1)

\* C37: every step invocation produces exactly one record and exactly one
\* per-step event, Succeeded with "success" or Failed with "failed" and never
\* both, also when a listener of the event throws.
C37_OneRecordOneEvent == [](C37_State) /\ [][C37_Step]_vars

\* C37, reached: a step has succeeded with a throwing listener registered,
\* and has its one record
C37_Witness ==
  /\ \E i \in 1..Len(listeners) : listeners[i] = "throws"
  /\ emitted.success >= 1 /\ emitted.failed = 0
  /\ Len(results) = 1 /\ results[1].status = SUCCEEDED
  /\ called >= 1

\* C38: every record of the history results from invoking a step function
\* that was in the queue: no record is appended for a step that does not
\* exist, also when clear() is called between the call that commits to an
\* advancement and the moment the step at the cursor is read.
C38_RecordsHaveSteps ==
  \A i \in 1..Len(results) : results[i].step \in 1..submitted

\* C39: the index field of every record (the index the per-step event
\* carries is the same this.index) is the queue position of the step whose
\* invocation produced the record, also when go() is called while that step
\* is in flight.
C39_RecordIndexIsPosition ==
  \A i \in 1..Len(results) :
    results[i].step # 0 => StepAt(Cur, results[i].index) = results[i].step

\* C40: a listener registered with once(event, fn) is invoked for at most one
\* emission of the event, over any sequence of emit calls, also when fn
\* throws during its first invocation.
C40_OnceAtMostOnce == fired <= 1

====
